---- MODULE Spec2Model ----
(***************************************************************************)
(* git-stats: the accumulator (StatisticsManager, src/src/git-analyzer.ts) *)
(* and the percentile classifier and chart layout of the CLI               *)
(* (src/src/cli.ts).                                                       *)
(*                                                                         *)
(* Strings are sequences of one-character strings, so that substring,     *)
(* length, includes and the default (code unit) sort order are computed   *)
(* as the code computes them.  A JavaScript Map is a sequence of          *)
(* [key, value] entries in insertion order.  A JavaScript number that may *)
(* be NaN is a record [nan, val]; a quotient that is not rounded is a     *)
(* fraction [num, den], with den = 0 standing for 0/0 (NaN).              *)
(***************************************************************************)
EXTENDS Integers, Sequences, FiniteSets, TLC

VARIABLES
  stats,              \* StatisticsManager.stats: Map date -> {insertions, deletions}
  commitStats,        \* StatisticsManager.commitStats: Map hash -> CommitStats
  commitOrder,        \* StatisticsManager.commitOrder: hashes in ingestion order
  ingested,           \* history: the records passed to addCommitStats since the last clear()
  aggregated,         \* what the last aggregateStats / getStats call since the last
                      \* change of the accumulator returned
  currentPercentile,  \* CLI.currentPercentile
  lifespan,           \* CLI.lifespan
  avgChangesPerDay,   \* CLI.avgChangesPerDay
  lastChartType,      \* CLI.lastChartType
  currentAnalyzer,    \* CLI.currentAnalyzer: null, or a GitAnalyzer's repoPath and
                      \* ignoredExtensions
  input,              \* the argument of the classifier call under study
  output,             \* what the last classifier call returned, or how the last command
                      \* with arguments went
  chart,              \* what the last printChart call wrote to the console
  history,            \* the records of the commits `git log --reverse` listed for the
                      \* last analysis
  analyzing,          \* where analyzeRepository is: "idle" (not called), "running" (in
                      \* its loops), "done" (returned), "failed" (git threw)
  batchStart,         \* i of the loop of analyzeRepository: where the batch starts
  batchIndex,         \* i of the loop of processBatch: the place in the batch
  onProgress          \* the calls of the progress callback: (current, total)

vars == <<stats, commitStats, commitOrder, ingested, aggregated, currentPercentile,
          lifespan, avgChangesPerDay, lastChartType, currentAnalyzer, input, output, chart,
          history, analyzing, batchStart, batchIndex, onProgress>>

managerVars == <<stats, commitStats, commitOrder, ingested, aggregated>>
cliVars == <<currentPercentile, lifespan, avgChangesPerDay, lastChartType, currentAnalyzer>>
analysisVars == <<analyzing, batchStart, batchIndex, onProgress>>

----------------------------------------------------------------------------
(* Bounds of the model.                                                    *)

\* how many records are ingested between two clear() calls
MaxCommits == 3
\* how many values a classifier input holds at most
MaxLen == 4
\* the largest value of a classifier input
MaxVal == 2

----------------------------------------------------------------------------
(* Strings.                                                                *)

\* The characters the model's strings use, in ascending UTF-16 code unit order.
Alphabet == <<"\n", " ", "-", "0", "1", "2", "3", "4", "5", "6", "7", "8", "9",
              "a", "b", "c", "d", "e", "f", "i", "x">>

Ord(c) == CHOOSE i \in 1..Len(Alphabet) : Alphabet[i] = c

\* the element of a one-element set: Only({F(x) : x \in {e}}) is F(e) with e worked
\* out once
Only(S) == CHOOSE x \in S : TRUE

Min2(a, b) == IF a <= b THEN a ELSE b
Max2(a, b) == IF a >= b THEN a ELSE b

\* String.prototype.substring(from, to) for 0 <= from <= to: positions from .. to-1,
\* both clamped to the length.
Substring(s, from, to) ==
  LET a == Min2(from, Len(s))
      b == Min2(to, Len(s))
  IN  [i \in 1..(b - a) |-> s[a + i]]

\* String.prototype.includes(c) for a one-character needle.
Includes(s, c) == \E i \in 1..Len(s) : s[i] = c

\* message.split('\n')[0]: the text before the first line break.
RECURSIVE FirstLine(_)
FirstLine(s) ==
  IF s = <<>> \/ Head(s) = "\n" THEN <<>> ELSE <<Head(s)>> \o FirstLine(Tail(s))

\* The order Array.prototype.sort() uses without a comparator: code units, left to
\* right, a proper prefix first.
RECURSIVE StrLess(_, _)
StrLess(a, b) ==
  IF b = <<>> THEN FALSE
  ELSE IF a = <<>> THEN TRUE
  ELSE IF Head(a) # Head(b) THEN Ord(Head(a)) < Ord(Head(b))
  ELSE StrLess(Tail(a), Tail(b))

Digits == <<"0", "1", "2", "3", "4", "5", "6", "7", "8", "9">>
Digit(n) == Digits[n + 1]
Pad2(n) == <<Digit(n \div 10), Digit(n % 10)>>
Pad4(n) == <<Digit(n \div 1000), Digit((n \div 100) % 10), Digit((n \div 10) % 10), Digit(n % 10)>>

\* timestamp.toISOString().split('T')[0]: YYYY-MM-DD of the commit's UTC day.
DateStr(y, m, d) == Pad4(y) \o <<"-">> \o Pad2(m) \o <<"-">> \o Pad2(d)

----------------------------------------------------------------------------
(* Sequences and Maps.                                                     *)

RECURSIVE SumSeq(_)
SumSeq(s) == IF s = <<>> THEN 0 ELSE Head(s) + SumSeq(Tail(s))

\* values.filter(v => v <= bound)
RECURSIVE FilterLe(_, _)
FilterLe(s, bound) ==
  IF s = <<>> THEN <<>>
  ELSE (IF Head(s) <= bound THEN <<Head(s)>> ELSE <<>>) \o FilterLe(Tail(s), bound)

\* values.filter(v => v > 0)
RECURSIVE FilterPositive(_)
FilterPositive(s) ==
  IF s = <<>> THEN <<>>
  ELSE (IF Head(s) > 0 THEN <<Head(s)>> ELSE <<>>) \o FilterPositive(Tail(s))

\* Math.max(...values) of a non-empty sequence
RECURSIVE MaxSeq(_)
MaxSeq(s) == IF Len(s) = 1 THEN s[1] ELSE Max2(Head(s), MaxSeq(Tail(s)))

\* [...values].sort((a, b) => a - b)
RECURSIVE InsertNum(_, _)
InsertNum(sorted, v) ==
  IF sorted = <<>> THEN <<v>>
  ELSE IF v < Head(sorted) THEN <<v>> \o sorted
  ELSE <<Head(sorted)>> \o InsertNum(Tail(sorted), v)

RECURSIVE SortNum(_)
SortNum(s) ==
  IF s = <<>> THEN <<>>
  ELSE Only({InsertNum(front, s[Len(s)]) : front \in {SortNum(SubSeq(s, 1, Len(s) - 1))}})

\* dates.sort()
RECURSIVE InsertStr(_, _)
InsertStr(sorted, k) ==
  IF sorted = <<>> THEN <<k>>
  ELSE IF StrLess(k, Head(sorted)) THEN <<k>> \o sorted
  ELSE <<Head(sorted)>> \o InsertStr(Tail(sorted), k)

RECURSIVE SortStr(_)
SortStr(s) ==
  IF s = <<>> THEN <<>>
  ELSE Only({InsertStr(front, s[Len(s)]) : front \in {SortStr(SubSeq(s, 1, Len(s) - 1))}})

EmptyMap == <<>>
MapHas(m, k) == \E i \in 1..Len(m) : m[i].key = k
MapGet(m, k) == m[CHOOSE i \in 1..Len(m) : m[i].key = k].value
\* Map.prototype.set: an existing key keeps its place, a new key goes last.
MapSet(m, k, v) ==
  IF MapHas(m, k)
  THEN [i \in 1..Len(m) |-> IF m[i].key = k THEN [key |-> k, value |-> v] ELSE m[i]]
  ELSE Append(m, [key |-> k, value |-> v])
\* Array.from(map.keys())
MapKeys(m) == [i \in 1..Len(m) |-> m[i].key]
\* new Map(pairs)
RECURSIVE MapFrom(_)
MapFrom(pairs) ==
  IF pairs = <<>> THEN EmptyMap
  ELSE Only({MapSet(before, pairs[Len(pairs)].key, pairs[Len(pairs)].value) :
               before \in {MapFrom(SubSeq(pairs, 1, Len(pairs) - 1))}})

ZeroTotals == [insertions |-> 0, deletions |-> 0]
NoResult == [period |-> "none", map |-> EmptyMap]

----------------------------------------------------------------------------
(* StatisticsManager.                                                      *)

\* The calendar days commits fall on: two days of one month, the last day of the year
\* before, a day of the month after.
Dates == {DateStr(2023, 12, 31), DateStr(2024, 1, 1), DateStr(2024, 1, 15), DateStr(2024, 2, 1)}

\* The (insertions, deletions) a commit can carry after the ignore list is applied.
Changes == {<<0, 0>>, <<1, 1>>, <<3, 1>>}

\* commit.hash and commit.message of the n-th commit of a history: hashes are unique;
\* two share their first seven characters, one message has a second line.
Hashes == << <<"a", "1", "b", "2", "c", "3", "d", "4">>,
             <<"a", "1", "b", "2", "c", "3", "d", "5">>,
             <<"e", "0", "e", "0", "e", "0", "e", "0">>,
             <<"f", "9", "f", "9", "f", "9", "f", "9">>,
             <<"0", "0", "1", "1", "2", "2", "3", "3">> >>
Messages == << <<"f", "i", "x">>,
               <<"f", "i", "x">>,
               <<"a", "d", "d", "\n", "x">>,
               <<"f", "i", "x", " ", "a">>,
               <<"a", "d", "d">> >>

\* The CommitStats record processCommit builds for the n-th commit of a history.
CommitRecord(n, date, ins, del) ==
  [date |-> date, insertions |-> ins, deletions |-> del,
   hash |-> Hashes[n], message |-> Messages[n]]

\* addCommitStats that overwrites the day's totals instead of adding to them
StatsAfterAddOverwrite(st, rec) ==
  MapSet(st, rec.date, [insertions |-> rec.insertions, deletions |-> rec.deletions])

\* stats after addCommitStats(rec)
StatsAfterAdd(st, rec) ==
  LET existing == IF MapHas(st, rec.date) THEN MapGet(st, rec.date) ELSE ZeroTotals
  IN  MapSet(st, rec.date,
             [insertions |-> existing.insertions + rec.insertions,
              deletions |-> existing.deletions + rec.deletions])

\* aggregateStats(period) on the manager's current fields
PeriodKey(period, date) ==
  IF period = "day" THEN date
  ELSE IF period = "month" THEN Substring(date, 0, 7)
  ELSE Substring(date, 0, 4)

\* aggregateStats that keeps only the last day of each period
RECURSIVE AggregateDatesLast(_, _)
AggregateDatesLast(st, period) ==
  IF st = <<>> THEN EmptyMap
  ELSE Only({MapSet(before, PeriodKey(period, st[Len(st)].key), st[Len(st)].value) :
               before \in {AggregateDatesLast(SubSeq(st, 1, Len(st) - 1), period)}})

\* one turn of that loop that keeps the totals a key already has
AggregateEntryKeepFirst(before, period, entry) ==
  LET key == PeriodKey(period, entry.key)
  IN  IF MapHas(before, key) THEN before ELSE MapSet(before, key, entry.value)

\* one turn of the loop over stats.entries(): the entry added to the Map built so far
AggregateEntry(before, period, entry) ==
  LET key == PeriodKey(period, entry.key)
      existing == IF MapHas(before, key) THEN MapGet(before, key) ELSE ZeroTotals
  IN  MapSet(before, key,
             [insertions |-> existing.insertions + entry.value.insertions,
              deletions |-> existing.deletions + entry.value.deletions])

RECURSIVE AggregateDates(_, _)
AggregateDates(st, period) ==
  IF st = <<>> THEN EmptyMap
  ELSE Only({AggregateEntry(before, period, st[Len(st)]) :
               before \in {AggregateDates(SubSeq(st, 1, Len(st) - 1), period)}})

CommitKey(c) ==
  c.date \o <<" ">> \o Substring(c.hash, 0, 7) \o <<" ">> \o Substring(FirstLine(c.message), 0, 50)

AggregateCommits(cs, order) ==
  Only({MapFrom(orderedCommits) :
          orderedCommits \in
            {[i \in 1..Len(order) |->
                LET c == MapGet(cs, order[i])
                IN  [key |-> CommitKey(c),
                     value |-> [insertions |-> c.insertions, deletions |-> c.deletions]]]}})

AggregateStatsOf(st, cs, order, period) ==
  IF period = "commit" THEN AggregateCommits(cs, order) ELSE AggregateDates(st, period)

Periods == {"day", "month", "year", "commit"}

\* addCommitStats({date, timestamp, insertions, deletions, hash, message}); the hash
\* GitAnalyzer.processCommit passes is never empty.
AddCommitStats(rec) ==
  /\ stats' = StatsAfterAdd(stats, rec)
  /\ commitStats' = MapSet(commitStats, rec.hash, rec)
  /\ commitOrder' = Append(commitOrder, rec.hash)
  /\ ingested' = Append(ingested, rec)

\* aggregateStats(period): a new Map, handed to the caller
AggregateStats(period) ==
  /\ aggregated' = [period |-> period,
                    map |-> AggregateStatsOf(stats, commitStats, commitOrder, period)]
  /\ UNCHANGED <<stats, commitStats, commitOrder, ingested>>

\* clear()
Clear ==
  /\ stats' = EmptyMap
  /\ commitStats' = EmptyMap
  /\ commitOrder' = <<>>
  /\ ingested' = <<>>

\* getStats(): the manager's own Map, not a copy
GetStats ==
  /\ aggregated' = [period |-> "stats", map |-> stats]
  /\ UNCHANGED <<stats, commitStats, commitOrder, ingested>>

----------------------------------------------------------------------------
(* The state after construction: new StatisticsManager(), new CLI().       *)

NoOutput == [op |-> "none"]
\* private currentAnalyzer: GitAnalyzer | null = null
NoAnalyzer == [loaded |-> FALSE]
\* new GitAnalyzer(repoPath, statsManager), and the analyzer after setIgnoredExtensions
Analyzer(repoPath, ignoredExtensions) ==
  [loaded |-> TRUE, repoPath |-> repoPath, ignoredExtensions |-> ignoredExtensions]
NoChart == [called |-> FALSE, header |-> FALSE, rows |-> <<>>]
\* no call of analyzeRepository is under way
NotAnalyzing ==
  /\ analyzing = "idle"
  /\ batchStart = 0
  /\ batchIndex = 0
  /\ onProgress = <<>>

Init ==
  /\ stats = EmptyMap
  /\ commitStats = EmptyMap
  /\ commitOrder = <<>>
  /\ ingested = <<>>
  /\ aggregated = NoResult
  /\ currentPercentile = 95
  /\ lifespan = 0
  /\ avgChangesPerDay = 0
  /\ lastChartType = "day"
  /\ currentAnalyzer = NoAnalyzer
  /\ input = <<>>
  /\ output = NoOutput
  /\ chart = NoChart
  /\ history = <<>>
  /\ NotAnalyzing

----------------------------------------------------------------------------
(* The accumulator on its own: any records, in any order, with clear() and *)
(* the queries in between.                                                 *)

\* What the caller's hold on a returned Map shows once the accumulator has become st: a
\* Map returned by getStats is this.stats itself and shows st; a Map built by
\* aggregateStats is the caller's own and is let go of.
HeldAfter(st) ==
  IF aggregated.period = "stats" THEN [period |-> "stats", map |-> st] ELSE NoResult

Ingest ==
  /\ Len(ingested) < MaxCommits
  /\ \E d \in Dates, c \in Changes :
       AddCommitStats(CommitRecord(Len(ingested) + 1, d, c[1], c[2]))
  /\ aggregated' = HeldAfter(stats')
  /\ UNCHANGED <<cliVars, input, analysisVars, output, chart, history>>

Query ==
  /\ \E period \in Periods : AggregateStats(period)
  /\ UNCHANGED <<cliVars, input, analysisVars, output, chart, history>>

QueryStats ==
  /\ GetStats
  /\ UNCHANGED <<cliVars, input, analysisVars, output, chart, history>>

Reset ==
  /\ Clear
  /\ aggregated' = HeldAfter(stats')
  /\ UNCHANGED <<cliVars, input, analysisVars, output, chart, history>>

NextManager == Ingest \/ Query \/ QueryStats \/ Reset

SpecManager == Init /\ [][NextManager]_vars

----------------------------------------------------------------------------
(* The percentile classifier of the CLI.                                   *)

\* A JavaScript number that can be NaN or undefined (both compare false with every
\* number); val is 0 when nan.
Num(v) == [nan |-> FALSE, val |-> v]
NaN == [nan |-> TRUE, val |-> 0]
\* a <= b, a > b on such numbers
NumLe(a, b) == ~a.nan /\ ~b.nan /\ a.val <= b.val
NumGt(a, b) == ~a.nan /\ ~b.nan /\ a.val > b.val

\* A quotient kept exact: num / den with den >= 0; 0 / 0 is NaN.
Frac(n, d) == [num |-> n, den |-> d]

\* Math.ceil(a / b) for a >= 0, b > 0
CeilDiv(a, b) == (a + b - 1) \div b

\* Math.round(a / b) for b > 0: the nearest integer, a half going up
RoundDiv(a, b) == (2 * a + b) \div (2 * b)

\* Math.ceil((percentile / 100) * n) - 1 without the final -1
PercentileIndexNoOffset(n, percentile) == CeilDiv(percentile * n, 100)

\* Math.ceil((percentile / 100) * sorted.length) - 1
PercentileIndex(n, percentile) == CeilDiv(percentile * n, 100) - 1

\* calculatePercentile(values, percentile): sorted[index], undefined outside the array
CalculatePercentileOf(values, percentile) ==
  LET index == PercentileIndex(Len(values), percentile)
  IN  Only({IF index >= 0 /\ index < Len(sorted) THEN Num(sorted[index + 1]) ELSE NaN :
              sorted \in {SortNum(values)}})

\* sorted.findIndex(v => v >= value): 0-based, -1 when there is none
FindIndexGe(sorted, value) ==
  IF \E i \in 1..Len(sorted) : sorted[i] >= value
  THEN (CHOOSE i \in 1..Len(sorted) :
          /\ sorted[i] >= value
          /\ \A j \in 1..(i - 1) : sorted[j] < value) - 1
  ELSE 0 - 1

\* calculatePercentileRank counting from the top: the share of the values from index on
CalculatePercentileRankFromTop(value, values) ==
  Only({RoundDiv((Len(sorted) - FindIndexGe(sorted, value)) * 100, Len(sorted)) :
          sorted \in {SortNum(values)}})

\* calculatePercentileRank with a strict comparison in findIndex
CalculatePercentileRankStrict(value, values) ==
  Only({RoundDiv(FindIndexGe(sorted, value + 1) * 100, Len(sorted)) :
          sorted \in {SortNum(values)}})

\* calculatePercentileRank(value, values), values not empty
CalculatePercentileRankOf(value, values) ==
  Only({RoundDiv(FindIndexGe(sorted, value) * 100, Len(sorted)) :
          sorted \in {SortNum(values)}})

\* the filter with a strict comparison
FilterLtNum(values, bound) == IF bound.nan THEN <<>> ELSE FilterLe(values, bound.val - 1)

\* values.filter(v => v <= percentileValue); nothing is <= undefined
FilterLeNum(values, bound) == IF bound.nan THEN <<>> ELSE FilterLe(values, bound.val)

\* the average taken over all the values
AverageOverAll(filteredValues, values) == Frac(SumSeq(filteredValues), Len(values))

\* avgValue = totalChanges / filteredValues.length
AverageOf(filteredValues, values) == Frac(SumSeq(filteredValues), Len(filteredValues))

\* calculateStats(values) with this.currentPercentile = percentile
CalculateStatsOf(values, percentile) ==
  IF Len(values) <= 1
  THEN [filteredValues |-> values,
        avgValue |-> Frac(IF values = <<>> THEN 0 ELSE values[1], 1),
        percentileValue |-> Num(IF values = <<>> THEN 0 ELSE values[1])]
  ELSE Only({Only({[filteredValues |-> filteredValues,
                    avgValue |-> AverageOf(filteredValues, values),
                    percentileValue |-> percentileValue] :
                     filteredValues \in {FilterLeNum(values, percentileValue)}}) :
               percentileValue \in {CalculatePercentileOf(values, percentile)}})

\* The percentiles a `percentile` or `repo` command can set: the least and the greatest,
\* the default, and both sides of every k/n cut for n up to 6.
Percentiles == {1, 16, 17, 20, 21, 25, 26, 33, 34, 40, 41, 50, 51, 60, 61, 66, 67,
                75, 76, 80, 81, 83, 84, 95, 100}

\* The classifier inputs: every sequence of at most MaxLen values in 0..MaxVal.
ValueSeqs == UNION {[1..n -> 0..MaxVal] : n \in 0..MaxLen}

Elements(s) == {s[i] : i \in 1..Len(s)}

InitStats ==
  /\ stats = EmptyMap
  /\ commitStats = EmptyMap
  /\ commitOrder = <<>>
  /\ ingested = <<>>
  /\ aggregated = NoResult
  /\ currentPercentile \in Percentiles
  /\ lifespan = 0
  /\ avgChangesPerDay = 0
  /\ lastChartType = "day"
  /\ currentAnalyzer = NoAnalyzer
  /\ input \in ValueSeqs
  /\ output = NoOutput
  /\ chart = NoChart
  /\ history = <<>>
  /\ NotAnalyzing

\* calculateStats(values)
CalculateStats ==
  /\ output' = [op |-> "calculateStats"] @@ CalculateStatsOf(input, currentPercentile)
  /\ UNCHANGED <<managerVars, cliVars, input, analysisVars, chart, history>>

\* calculatePercentile(values, this.currentPercentile), as calculateStats calls it
CalculatePercentile ==
  /\ Len(input) >= 2
  /\ output' = [op |-> "calculatePercentile",
                index |-> PercentileIndex(Len(input), currentPercentile),
                value |-> CalculatePercentileOf(input, currentPercentile)]
  /\ UNCHANGED <<managerVars, cliVars, input, analysisVars, chart, history>>

\* calculatePercentileRank(value, values), as printChart calls it: for a value of the
\* series
CalculatePercentileRank ==
  /\ \E value \in Elements(input) :
       output' = [op |-> "calculatePercentileRank", value |-> value,
                  rank |-> CalculatePercentileRankOf(value, input)]
  /\ UNCHANGED <<managerVars, cliVars, input, analysisVars, chart, history>>

NextStats == CalculateStats \/ CalculatePercentile \/ CalculatePercentileRank

SpecStats == InitStats /\ [][NextStats]_vars

----------------------------------------------------------------------------
(* Claims about the accumulator.                                           *)

RECURSIVE TotalInsertions(_)
TotalInsertions(m) ==
  IF m = <<>> THEN 0 ELSE Head(m).value.insertions + TotalInsertions(Tail(m))

RECURSIVE TotalDeletions(_)
TotalDeletions(m) ==
  IF m = <<>> THEN 0 ELSE Head(m).value.deletions + TotalDeletions(Tail(m))

\* the positions of the ingested records of one date
RecordsOf(d) == {i \in 1..Len(ingested) : ingested[i].date = d}

RECURSIVE SumOver(_, _, _)
SumOver(recs, idx, field) ==
  IF idx = {} THEN 0
  ELSE LET i == CHOOSE j \in idx : TRUE
       IN  (IF field = "insertions" THEN recs[i].insertions ELSE recs[i].deletions)
           + SumOver(recs, idx \ {i}, field)

\* C1: after any addCommitStats calls since the last clear(), a date has an entry in
\* stats exactly when a record of that date was ingested, and the entry is the sum of
\* the insertions and the sum of the deletions of exactly those records; a first
\* record of (0, 0) therefore leaves a present (0, 0) entry.
C1_DayTotalsAreSums ==
  /\ \A i, j \in 1..Len(stats) : stats[i].key = stats[j].key => i = j
  /\ \A d \in Dates :
       /\ MapHas(stats, d) <=> RecordsOf(d) # {}
       /\ MapHas(stats, d) =>
            /\ MapGet(stats, d).insertions = SumOver(ingested, RecordsOf(d), "insertions")
            /\ MapGet(stats, d).deletions = SumOver(ingested, RecordsOf(d), "deletions")

\* a date with two non-zero records, and another date whose only record is (0, 0)
C1_Witness ==
  /\ \E d \in Dates :
       /\ Cardinality(RecordsOf(d)) >= 2
       /\ \A i \in RecordsOf(d) : ingested[i].insertions > 0
  /\ \E d \in Dates :
       /\ Cardinality(RecordsOf(d)) = 1
       /\ MapHas(stats, d) /\ MapGet(stats, d) = ZeroTotals

DatePeriods == {"day", "month", "year"}

\* C2: for non-empty day totals, the insertions summed over the keys of the month
\* aggregation, of the day aggregation and of the year aggregation are the same number,
\* and so are the deletions; a Map aggregateStats returned carries those sums.
C2_AggregationKeepsSums ==
  stats # EmptyMap =>
    LET day == AggregateStatsOf(stats, commitStats, commitOrder, "day")
        month == AggregateStatsOf(stats, commitStats, commitOrder, "month")
        year == AggregateStatsOf(stats, commitStats, commitOrder, "year")
    IN  /\ TotalInsertions(month) = TotalInsertions(day)
        /\ TotalInsertions(year) = TotalInsertions(day)
        /\ TotalDeletions(month) = TotalDeletions(day)
        /\ TotalDeletions(year) = TotalDeletions(day)
        /\ aggregated.period \in DatePeriods =>
             /\ TotalInsertions(aggregated.map) = TotalInsertions(day)
             /\ TotalDeletions(aggregated.map) = TotalDeletions(day)

\* a month aggregation that merged two days with changes, next to a third day
C2_Witness ==
  /\ aggregated.period = "month"
  /\ Len(stats) = 3
  /\ Len(aggregated.map) = 2
  /\ \A i \in 1..Len(stats) : stats[i].value.insertions > 0

----------------------------------------------------------------------------
(* Claims about the classifier.                                            *)

\* how many of the values are below v, and how many are at most v
Below(values, v) == Cardinality({i \in 1..Len(values) : values[i] < v})
AtMost(values, v) == Cardinality({i \in 1..Len(values) : values[i] <= v})

\* the nearest rank of percentile p among n values: the least k with k / n >= p / 100
NearestRank(n, p) == CHOOSE k \in 0..(n + 1) : 100 * k >= p * n /\ 100 * (k - 1) < p * n

\* v is the element at 0-based position index of the ascending sort of values
IsSortedElementAt(values, index, v) ==
  /\ ~v.nan
  /\ v.val \in Elements(values)
  /\ Below(values, v.val) <= index
  /\ index < AtMost(values, v.val)

\* C3: for n >= 2 values and a percentile p in [1,100], the cutoff index
\* ceil(p/100 * n) - 1 lies in [0, n-1], percentileValue is the element at that index of
\* the ascending sort, and it is the maximum when p = 100.
C3_CutoffIsNearestRank ==
  LET n == Len(input)
      index == NearestRank(n, currentPercentile) - 1
  IN  n >= 2 =>
        /\ output.op = "calculatePercentile" =>
             /\ output.index = index
             /\ output.index >= 0 /\ output.index <= n - 1
             /\ IsSortedElementAt(input, output.index, output.value)
             /\ currentPercentile = 100 => \A v \in Elements(input) : v <= output.value.val
        /\ output.op = "calculateStats" =>
             /\ IsSortedElementAt(input, index, output.percentileValue)
             /\ currentPercentile = 100 =>
                  \A v \in Elements(input) : v <= output.percentileValue.val

\* a cutoff strictly inside the sorted values: neither the least nor the greatest
C3_Witness ==
  /\ output.op = "calculatePercentile"
  /\ Len(input) = MaxLen
  /\ output.index > 0 /\ output.index < Len(input) - 1
  /\ Below(input, output.value.val) > 0
  /\ AtMost(input, output.value.val) < Len(input)

\* C4: filteredValues is exactly the sub-sequence of the values that are at most
\* percentileValue, the values equal to it included.
C4_FilteredIsAllUpToCutoff ==
  output.op = "calculateStats" =>
    LET Keep(v) == v <= output.percentileValue.val
    IN  /\ ~output.percentileValue.nan
        /\ output.filteredValues = SelectSeq(input, Keep)

\* a value above the cutoff is dropped and two values equal to the cutoff are kept
C4_Witness ==
  /\ output.op = "calculateStats"
  /\ Len(output.filteredValues) < Len(input)
  /\ Cardinality({i \in 1..Len(output.filteredValues) :
                    output.filteredValues[i] = output.percentileValue.val}) >= 2
  /\ Below(input, output.percentileValue.val) > 0

\* C5: averageValue is the sum of filteredValues divided by their count, 0 when there
\* are none, and the divisor is never 0.
C5_AverageIsMeanOfFiltered ==
  output.op = "calculateStats" =>
    /\ output.avgValue.den > 0
    /\ output.filteredValues = <<>> => output.avgValue.num = 0
    /\ output.filteredValues # <<>> =>
         output.avgValue.num * Len(output.filteredValues)
           = SumSeq(output.filteredValues) * output.avgValue.den

\* an average over fewer values than were given that is not a whole number
C5_Witness ==
  /\ output.op = "calculateStats"
  /\ Len(output.filteredValues) >= 2
  /\ Len(output.filteredValues) < Len(input)
  /\ output.avgValue.num % output.avgValue.den # 0

\* C6: calculatePercentileRank(value, values) is 100 * k / n rounded to the nearest
\* integer (a half up), k being the number of values strictly smaller than value.
C6_RankIsRoundedShareBelow ==
  output.op = "calculatePercentileRank" =>
    LET n == Len(input)
        k == Below(input, output.value)
    IN  /\ 2 * output.rank * n <= 200 * k + n
        /\ 200 * k + n < 2 * (output.rank + 1) * n

\* a value that occurs twice, with one smaller value, ranked 33 among three
C6_Witness ==
  /\ output.op = "calculatePercentileRank"
  /\ Len(input) = 3
  /\ Below(input, output.value) = 1
  /\ AtMost(input, output.value) = 3
  /\ output.rank = 33

\* C7: for a fixed value set the rank does not decrease as the value increases.
C7_RankIsMonotone ==
  output.op = "calculatePercentileRank" =>
    \A v \in Elements(input) :
      /\ v <= output.value => CalculatePercentileRankOf(v, input) <= output.rank
      /\ v >= output.value => CalculatePercentileRankOf(v, input) >= output.rank

\* the middle one of three distinct values that were not given in ascending order
C7_Witness ==
  /\ output.op = "calculatePercentileRank"
  /\ input # SortNum(input)
  /\ \E v \in Elements(input) : v < output.value
  /\ \E v \in Elements(input) : v > output.value
  /\ output.rank > 0

----------------------------------------------------------------------------
(* The chart the CLI prints.  For the values of this model (at most five   *)
(* rows, totals below 24) the double arithmetic of the code gives the same *)
(* integers as the exact quotients used here.                              *)

scaleWidth == 50

\* the length cut down to a whole number of cells, Math.floor for Math.round
ScaledLengthFloor(a, b) == IF b = 0 THEN NaN ELSE Num((a * scaleWidth) \div b)

\* Math.round((a / b) * scaleWidth) for 0 <= a <= b: NaN when b is 0 (then a is 0 too)
ScaledLength(a, b) == IF b = 0 THEN NaN ELSE Num(RoundDiv(a * scaleWidth, b))

\* Math.round((avgValue / maxValue) * scaleWidth)
AvgPositionOf(avgValue, maxValue) ==
  IF avgValue.den = 0 \/ maxValue = 0 THEN NaN
  ELSE Num(RoundDiv(avgValue.num * scaleWidth, avgValue.den * maxValue))

\* Math.round(avgValue)
RoundFrac(f) == IF f.den = 0 THEN NaN ELSE Num(RoundDiv(f.num, f.den))

\* the array calculatePercentile would leave if it sorted values itself
ValuesSortedInPlace(values) == SortNum(values)

\* the array values after calculateStats, calculatePercentile and calculatePercentileRank
\* were given it: they sort a copy ([...values]) and filter into a new array
ValuesAfterCalls(values) == values

\* the ChartData record for the rows in the order dates
ChartDataOf(map, dates, values, classified) ==
  [dates |-> dates,
   values |-> ValuesAfterCalls(values),
   \* Math.max() of nothing is -Infinity; printChart returns before reading it
   maxValue |-> IF values = <<>> THEN 0 ELSE MaxSeq(values),
   avgValue |-> classified.avgValue,
   filteredValues |-> classified.filteredValues,
   totalChanges |-> SumSeq(values),
   insertions |-> [i \in 1..Len(dates) |-> MapGet(map, dates[i]).insertions],
   deletions |-> [i \in 1..Len(dates) |-> MapGet(map, dates[i]).deletions],
   percentileValue |-> classified.percentileValue]

\* the keys of the Map as the Map holds them, not sorted
ChartDatesAsStored(map) == MapKeys(map)

\* the keys of the Map in the order of the rows: sorted, unless the first has a space
ChartDatesOf(map) ==
  LET keys == MapKeys(map)
  IN  IF keys # <<>> /\ Includes(keys[1], " ") THEN keys ELSE SortStr(keys)

\* prepareChartData(stats) with this.currentPercentile = percentile
PrepareChartData(stats_, percentile) ==
  Only({Only({Only({ChartDataOf(map, dates, values, CalculateStatsOf(values, percentile)) :
                      values \in {[i \in 1..Len(dates) |->
                                     MapGet(map, dates[i]).insertions
                                       + MapGet(map, dates[i]).deletions]}}) :
                dates \in {ChartDatesOf(map)}}) :
          map \in {stats_}})

\* one call of calculatePercentileRankCached: the rank of value, and the memo after it
RankCached(before, value, values) ==
  IF MapHas(before.memo, value)
  THEN [ranks |-> Append(before.ranks, MapGet(before.memo, value)), memo |-> before.memo]
  ELSE Only({[ranks |-> Append(before.ranks, rank),
              memo |-> MapSet(before.memo, value, rank)] :
               rank \in {CalculatePercentileRankOf(value, values)}})

\* calculatePercentileRankCached over the rows so far: the ranks of rows 1..n, with the
\* memo Map they leave behind
RECURSIVE RanksCached(_, _)
RanksCached(values, n) ==
  IF n = 0 THEN [ranks |-> <<>>, memo |-> EmptyMap]
  ELSE Only({RankCached(before, values[n], values) :
               before \in {RanksCached(values, n - 1)}})

\* the row drawn as an outlier whenever its total reaches the cutoff
IsOutlierInclusive(value, percentileValue) == NumLe(percentileValue, Num(value))

\* value > percentileValue
IsOutlier(value, percentileValue) == NumGt(Num(value), percentileValue)

\* the insertions loop without its `i < scaleWidth` bound
InsertionsEndUncapped(delBarLength, insBarLength) == delBarLength + insBarLength

\* where the insertions loop stops: `i < delBarLength + insBarLength && i < scaleWidth`
InsertionsEnd(delBarLength, insBarLength) == Min2(delBarLength + insBarLength, scaleWidth)

\* barChars after the fill loops of one row; cell i of the code is bar[i + 1].  The
\* array starts with scaleWidth cells and grows if a loop writes past its end.
BarOf(outlier, totalBarLength, insBarLength, delBarLength) ==
  IF outlier
  THEN [c \in 1..scaleWidth |->
          IF ~totalBarLength.nan /\ c - 1 < totalBarLength.val THEN "outlier" ELSE " "]
  ELSE IF delBarLength.nan \/ insBarLength.nan
  THEN [c \in 1..scaleWidth |-> " "]
  ELSE LET insEnd == InsertionsEnd(delBarLength.val, insBarLength.val)
       IN  [c \in 1..Max2(scaleWidth, Max2(delBarLength.val, insEnd)) |->
              IF c - 1 < delBarLength.val THEN "deletions"
              ELSE IF c - 1 < insEnd THEN "insertions"
              ELSE " "]

\* the average line drawn one column to the left
LineWithAvgShifted(bar, avgPosition) ==
  IF ~avgPosition.nan /\ avgPosition.val >= 1 /\ avgPosition.val <= scaleWidth
  THEN [bar EXCEPT ![avgPosition.val] = "avg"]
  ELSE bar

\* barChars after `if (avgPosition >= 0 && avgPosition < scaleWidth) barChars[avgPosition] = '│'`
LineWithAvg(bar, avgPosition) ==
  IF ~avgPosition.nan /\ avgPosition.val >= 0 /\ avgPosition.val < scaleWidth
  THEN [bar EXCEPT ![avgPosition.val + 1] = "avg"]
  ELSE bar

\* one line of the dates.forEach loop, the three lengths worked out
RowWith(data, index, avgPosition, rank, totalBarLength, insBarLength, delBarLength) ==
  LET value == data.values[index]
      outlier == IsOutlier(value, data.percentileValue)
  IN  Only({[date |-> data.dates[index],
             value |-> value,
             insertions |-> data.insertions[index],
             deletions |-> data.deletions[index],
             totalBarLength |-> totalBarLength,
             insBarLength |-> insBarLength,
             delBarLength |-> delBarLength,
             outlier |-> outlier,
             bar |-> bar,
             line |-> LineWithAvg(bar, avgPosition),
             \* (value / totalChanges) * 100, in tenths as toFixed(1) prints it
             percentage |-> IF data.totalChanges = 0 THEN NaN
                            ELSE Num(RoundDiv(value * 1000, data.totalChanges)),
             percentile |-> rank] :
              bar \in {BarOf(outlier, totalBarLength, insBarLength, delBarLength)}})

\* one line of the dates.forEach loop
RowOf(data, index, avgPosition, rank) ==
  RowWith(data, index, avgPosition, rank,
          ScaledLength(data.values[index], data.maxValue),
          ScaledLength(data.insertions[index], data.maxValue),
          ScaledLength(data.deletions[index], data.maxValue))

\* the statistics block under the table
SummaryOf(data, life, perDay, percentile) ==
  LET first == data.dates[1]
      periodType == IF Len(first) = 4 THEN "year"
                    ELSE IF Len(first) = 7 THEN "month"
                    ELSE IF Includes(first, " ") THEN "commit"
                    ELSE "day"
      \* Math.ceil(totalPeriods)
      possiblePeriods == IF periodType = "year" THEN CeilDiv(life, 365)
                         ELSE IF periodType = "month" THEN CeilDiv(life, 30)
                         ELSE IF periodType = "commit" THEN Len(data.dates)
                         ELSE life
      activePeriods == Len(data.filteredValues)
  IN  [periodType |-> periodType,
       lifespan |-> life,
       avgChangesPerDay |-> perDay,
       percentile |-> percentile,
       activePeriods |-> activePeriods,
       possiblePeriods |-> possiblePeriods,
       avgPerPeriod |-> RoundFrac(Frac(SumSeq(data.filteredValues), activePeriods)),
       \* (activePeriods / Math.ceil(totalPeriods)) * 100, not yet formatted
       activePercentage |-> Frac(activePeriods * 100, possiblePeriods)]

NotPrinted == [called |-> TRUE, header |-> FALSE, rows |-> <<>>]

\* what printChart writes for the ChartData data: the header, the rows, the statistics
RenderChart(data, avgPosition, ranks, life, perDay, percentile) ==
  [called |-> TRUE,
   header |-> TRUE,
   maxValue |-> data.maxValue,
   percentileValue |-> data.percentileValue,
   avgValue |-> data.avgValue,
   avgPosition |-> avgPosition,
   avgLabel |-> RoundFrac(data.avgValue),
   scaleValues |-> [i \in 1..5 |-> RoundDiv(data.maxValue * (i - 1), 4)],
   totalChanges |-> data.totalChanges,
   rows |-> [i \in 1..Len(data.dates) |-> RowOf(data, i, avgPosition, ranks[i])],
   summary |-> SummaryOf(data, life, perDay, percentile)]

\* printChart(stats, repoPath): what it writes, nothing at all for an empty Map
PrintChartOf(map, percentile, life, perDay) ==
  Only({IF data.dates = <<>> THEN NotPrinted
        ELSE Only({RenderChart(data, avgPosition, ranks, life, perDay, percentile) :
                     avgPosition \in {AvgPositionOf(data.avgValue, data.maxValue)},
                     ranks \in {RanksCached(data.values, Len(data.values)).ranks}}) :
          data \in {PrepareChartData(map, percentile)}})

----------------------------------------------------------------------------
(* analyzeCurrentRepository, and the chart commands after it.              *)

RECURSIVE ParseNat(_)
ParseNat(s) ==
  IF s = <<>> THEN 0
  ELSE 10 * ParseNat(SubSeq(s, 1, Len(s) - 1)) + (Ord(s[Len(s)]) - Ord("0"))

\* new Date('YYYY-MM-DD').getTime() / (1000 * 60 * 60 * 24): the days from 1970-01-01
\* to that day, which the string names at midnight UTC
DayNumber(date) ==
  LET year == ParseNat(Substring(date, 0, 4))
      month == ParseNat(Substring(date, 5, 7))
      day == ParseNat(Substring(date, 8, 10))
      y == IF month <= 2 THEN year - 1 ELSE year
      era == y \div 400
      yoe == y - era * 400
      doy == (153 * (IF month > 2 THEN month - 3 ELSE month + 9) + 2) \div 5 + day - 1
      doe == yoe * 365 + yoe \div 4 - yoe \div 100 + doy
  IN  era * 146097 + doe - 719468

\* the days between the two dates, the first one not counted
GetDaysBetweenDatesExclusive(date1, date2) ==
  LET diff == DayNumber(date2) - DayNumber(date1)
  IN  IF diff < 0 THEN 0 - diff ELSE diff

\* getDaysBetweenDates(date1, date2)
GetDaysBetweenDates(date1, date2) ==
  LET diff == DayNumber(date2) - DayNumber(date1)
  IN  (IF diff < 0 THEN 0 - diff ELSE diff) + 1

\* the accumulator after clear() and addCommitStats for every commit of log in turn
RECURSIVE StatsOfLog(_)
StatsOfLog(log) ==
  IF log = <<>> THEN EmptyMap
  ELSE Only({StatsAfterAdd(before, log[Len(log)]) :
               before \in {StatsOfLog(SubSeq(log, 1, Len(log) - 1))}})

CommitStatsOfLog(log) == MapFrom([i \in 1..Len(log) |-> [key |-> log[i].hash, value |-> log[i]]])
CommitOrderOfLog(log) == [i \in 1..Len(log) |-> log[i].hash]

\* lifespan and avgChangesPerDay as analyzeCurrentRepository leaves them: recomputed
\* when the accumulator holds a date, kept otherwise
LifespanAfter(st, old) ==
  LET dates == SortStr(MapKeys(st))
  IN  IF Len(dates) > 0 THEN GetDaysBetweenDates(dates[1], dates[Len(dates)]) ELSE old

AvgChangesPerDayAfter(st, percentile, old) ==
  LET changes == FilterPositive([i \in 1..Len(st) |->
                                   st[i].value.insertions + st[i].value.deletions])
  IN  IF Len(st) > 0 THEN RoundFrac(CalculateStatsOf(changes, percentile).avgValue).val
      ELSE old

\* The repositories the chart commands are run on: every history of at most MaxCommits
\* commits on three days, two of them in one month, listed oldest first as
\* `git log --reverse` lists them.
ChartDates == {DateStr(2023, 12, 31), DateStr(2024, 1, 1), DateStr(2024, 1, 15)}
OldestFirst(n) ==
  {d \in [1..n -> ChartDates] : \A i \in 1..(n - 1) : ~StrLess(d[i + 1], d[i])}
Histories ==
  UNION {{[i \in 1..n |-> CommitRecord(i, d[i], c[i][1], c[i][2])] :
            d \in OldestFirst(n), c \in [1..n -> Changes]} : n \in 0..MaxCommits}

\* the percentiles the charts are drawn with: the least, the median, the default, the
\* greatest
ChartPercentiles == {1, 50, 95, 100}

\* The session after `repo <path> <p>`: the history analysed, no chart printed yet.
InitChart ==
  /\ history \in Histories
  /\ currentPercentile \in ChartPercentiles
  /\ stats = StatsOfLog(history)
  /\ commitStats = CommitStatsOfLog(history)
  /\ commitOrder = CommitOrderOfLog(history)
  /\ ingested = history
  /\ aggregated = NoResult
  /\ lifespan = LifespanAfter(stats, 0)
  /\ avgChangesPerDay = AvgChangesPerDayAfter(stats, currentPercentile, 0)
  /\ lastChartType = "day"
  /\ currentAnalyzer = Analyzer("repo", <<>>)
  /\ input = <<>>
  /\ output = NoOutput
  /\ chart = NoChart
  /\ NotAnalyzing

\* the command loop is at its prompt: no `exit` command has ended the process
Listening == output.op # "exit"

\* the `day` command
CmdDay ==
  /\ Listening
  /\ lastChartType' = "day"
  /\ chart' = PrintChartOf(stats, currentPercentile, lifespan, avgChangesPerDay)
  /\ output' = NoOutput
  /\ UNCHANGED <<managerVars, currentPercentile, lifespan, avgChangesPerDay,
                 currentAnalyzer, input, analysisVars, history>>

\* the `month` command
CmdMonth ==
  /\ Listening
  /\ lastChartType' = "month"
  /\ chart' = PrintChartOf(AggregateStatsOf(stats, commitStats, commitOrder, "month"),
                           currentPercentile, lifespan, avgChangesPerDay)
  /\ output' = NoOutput
  /\ UNCHANGED <<managerVars, currentPercentile, lifespan, avgChangesPerDay,
                 currentAnalyzer, input, analysisVars, history>>

\* the `year` command
CmdYear ==
  /\ Listening
  /\ lastChartType' = "year"
  /\ chart' = PrintChartOf(AggregateStatsOf(stats, commitStats, commitOrder, "year"),
                           currentPercentile, lifespan, avgChangesPerDay)
  /\ output' = NoOutput
  /\ UNCHANGED <<managerVars, currentPercentile, lifespan, avgChangesPerDay,
                 currentAnalyzer, input, analysisVars, history>>

\* the `commit` command given without a from reference: the repository is analysed
\* again (clear(), every commit of the log ingested), then the commit chart is printed
CmdCommit ==
  /\ Listening
  /\ lastChartType' = "commit"
  /\ stats' = StatsOfLog(history)
  /\ commitStats' = CommitStatsOfLog(history)
  /\ commitOrder' = CommitOrderOfLog(history)
  /\ ingested' = history
  /\ lifespan' = LifespanAfter(stats', lifespan)
  /\ avgChangesPerDay' = AvgChangesPerDayAfter(stats', currentPercentile, avgChangesPerDay)
  /\ chart' = PrintChartOf(AggregateStatsOf(stats', commitStats', commitOrder', "commit"),
                           currentPercentile, lifespan', avgChangesPerDay')
  /\ output' = NoOutput
  /\ UNCHANGED <<aggregated, currentPercentile, currentAnalyzer, input, analysisVars, history>>

NextChart == CmdDay \/ CmdMonth \/ CmdYear \/ CmdCommit

SpecChart == InitChart /\ [][NextChart]_vars

----------------------------------------------------------------------------
(* Claims about the chart rows.                                            *)

\* len is a / b * scaleWidth rounded to the nearest integer, a half going up (b > 0)
IsScaled(len, a, b) ==
  /\ 2 * len * b <= 2 * a * scaleWidth + b
  /\ 2 * a * scaleWidth + b < 2 * (len + 1) * b

\* the length that is a / b * scaleWidth rounded
Scaled(a, b) == CHOOSE len \in 0..(scaleWidth + 1) : IsScaled(len, a, b)

CellsOf(bar, kind) == {c \in 1..Len(bar) : bar[c] = kind}

\* C8: a row is drawn as one solid outlier segment of length
\* round(total / maxValue * scaleWidth) exactly when its total is greater than
\* percentileValue; a row whose total equals the cutoff has no outlier cell.
C8_OutlierIffAboveCutoff ==
  chart.header =>
    \A i \in 1..Len(chart.rows) :
      LET row == chart.rows[i]
      IN  /\ ~chart.percentileValue.nan
          /\ row.value > chart.percentileValue.val =>
               \A len \in {Scaled(row.value, chart.maxValue)} :
                 /\ Len(row.bar) = scaleWidth
                 /\ CellsOf(row.bar, "outlier") = 1..len
                 /\ CellsOf(row.bar, " ") = (len + 1)..scaleWidth
          /\ row.value <= chart.percentileValue.val => CellsOf(row.bar, "outlier") = {}
          /\ \A c \in 1..Len(row.bar) : row.line[c] \in {row.bar[c], "avg"}

\* a chart with a row above the cutoff, drawn solid over part of the scale, and a row
\* at the cutoff drawn in deletions and insertions
C8_Witness ==
  /\ chart.header
  /\ \E i \in 1..Len(chart.rows) :
       /\ chart.rows[i].value > chart.percentileValue.val
       /\ CellsOf(chart.rows[i].line, "outlier") # {}
  /\ \E i \in 1..Len(chart.rows) :
       /\ chart.rows[i].value = chart.percentileValue.val
       /\ CellsOf(chart.rows[i].line, "insertions") # {}
       /\ CellsOf(chart.rows[i].line, "deletions") # {}

\* C9 as claimed: in a row that is not an outlier the deletions segment has length
\* round(deletions / maxValue * scaleWidth), the insertions segment has length
\* round(insertions / maxValue * scaleWidth), and the bar has scaleWidth cells.
C9_SegmentsHaveRoundedLengths ==
  (chart.header /\ chart.maxValue > 0) =>
    \A i \in 1..Len(chart.rows) :
      LET row == chart.rows[i]
      IN  row.value <= chart.percentileValue.val =>
            /\ Len(row.bar) = scaleWidth
            /\ Cardinality(CellsOf(row.bar, "deletions")) = Scaled(row.deletions, chart.maxValue)
            /\ Cardinality(CellsOf(row.bar, "insertions")) = Scaled(row.insertions, chart.maxValue)

\* C9: in a row that is not an outlier the bar has exactly scaleWidth cells; the
\* deletions segment of length round(deletions / maxValue * scaleWidth) comes first and
\* the insertions segment follows it, of length round(insertions / maxValue * scaleWidth)
\* cut off at the end of the scale; nothing is filled when maxValue is 0.
C9_SegmentsPackedAndCapped ==
  chart.header =>
    \A i \in 1..Len(chart.rows) :
      LET row == chart.rows[i]
      IN  row.value <= chart.percentileValue.val =>
            /\ Len(row.bar) = scaleWidth
            /\ Len(row.line) = scaleWidth
            /\ chart.maxValue = 0 => CellsOf(row.bar, " ") = 1..scaleWidth
            /\ chart.maxValue > 0 =>
                 \A del \in {Scaled(row.deletions, chart.maxValue)},
                    ins \in {Scaled(row.insertions, chart.maxValue)} :
                     /\ CellsOf(row.bar, "deletions") = 1..del
                     /\ CellsOf(row.bar, "insertions") = (del + 1)..Min2(del + ins, scaleWidth)
                     /\ CellsOf(row.bar, " ") = (Min2(del + ins, scaleWidth) + 1)..scaleWidth

\* a row whose rounded segments add up to scaleWidth + 1, next to a row they do not fill
C9_Witness ==
  /\ chart.header
  /\ chart.maxValue > 0
  /\ \E i \in 1..Len(chart.rows) :
       /\ chart.rows[i].value <= chart.percentileValue.val
       /\ Scaled(chart.rows[i].deletions, chart.maxValue)
            + Scaled(chart.rows[i].insertions, chart.maxValue) > scaleWidth
  /\ \E i \in 1..Len(chart.rows) :
       /\ chart.rows[i].value <= chart.percentileValue.val
       /\ CellsOf(chart.rows[i].bar, "deletions") # {}
       /\ CellsOf(chart.rows[i].bar, "insertions") # {}
       /\ CellsOf(chart.rows[i].bar, " ") # {}

\* the column round(avgValue / maxValue * scaleWidth), counted from 0 (maxValue > 0)
MarkerColumn ==
  CHOOSE col \in 0..(scaleWidth + 1) :
    IsScaled(col, chart.avgValue.num, chart.avgValue.den * chart.maxValue)

\* C10 as claimed: every row has the average marker at column
\* round(avgValue / maxValue * scaleWidth).
C10_MarkerOnEveryRow ==
  (chart.header /\ chart.maxValue > 0) =>
    \A i \in 1..Len(chart.rows) :
      /\ MarkerColumn + 1 \in 1..Len(chart.rows[i].line)
      /\ chart.rows[i].line[MarkerColumn + 1] = "avg"

\* C10: every row whose scale holds the column round(avgValue / maxValue * scaleWidth)
\* (it is below scaleWidth) has the average marker there, whatever the bar fill beneath
\* it, and the bar fill everywhere else; when the column is scaleWidth (the average is
\* the maximum) or maxValue is 0, no row has a marker.
C10_MarkerWhereScaleHoldsIt ==
  chart.header =>
    \A col \in {IF chart.maxValue > 0 THEN MarkerColumn ELSE scaleWidth} :
      \A i \in 1..Len(chart.rows) :
        LET row == chart.rows[i]
        IN  /\ Len(row.line) = Len(row.bar)
            /\ (chart.maxValue > 0 /\ col < scaleWidth) =>
                 /\ row.line[col + 1] = "avg"
                 /\ \A c \in 1..Len(row.bar) : c # col + 1 => row.line[c] = row.bar[c]
            /\ (chart.maxValue = 0 \/ col >= scaleWidth) => row.line = row.bar

\* a chart where the marker replaces a filled cell on one row and a blank on another
C10_Witness ==
  /\ chart.header
  /\ chart.maxValue > 0
  /\ MarkerColumn < scaleWidth
  /\ \E i \in 1..Len(chart.rows) :
       /\ chart.rows[i].line[MarkerColumn + 1] = "avg"
       /\ chart.rows[i].bar[MarkerColumn + 1] \in {"insertions", "deletions", "outlier"}
  /\ \E i \in 1..Len(chart.rows) :
       /\ chart.rows[i].line[MarkerColumn + 1] = "avg"
       /\ chart.rows[i].bar[MarkerColumn + 1] = " "

\* C13: aggregateStats('commit') returns exactly one entry per record ingested since
\* the last clear(), in ingestion order, each with that record's own insertions and
\* deletions: no two records merged, none missing.
C13_OneEntryPerRecord ==
  aggregated.period = "commit" =>
    /\ Len(aggregated.map) = Len(ingested)
    /\ \A i \in 1..Len(aggregated.map) :
         aggregated.map[i].value = [insertions |-> ingested[i].insertions,
                                    deletions |-> ingested[i].deletions]

\* C15: the collection getStats() returned is a snapshot: while the caller holds it, no
\* addCommitStats or clear() changes what it shows.
C15_GetStatsIsASnapshot ==
  [][(aggregated.period = "stats" /\ aggregated'.period = "stats") =>
       aggregated'.map = aggregated.map]_vars

\* the Map the last chart command handed to printChart
DisplayedSeries ==
  IF lastChartType = "day" THEN stats
  ELSE AggregateStatsOf(stats, commitStats, commitOrder, lastChartType)

\* the period totals of a series
TotalsOf(series) ==
  [i \in 1..Len(series) |-> series[i].value.insertions + series[i].value.deletions]

\* C11: when the series to render is empty or every period total is 0, printChart
\* emits the section header only and no table row (so nothing is divided by maxValue
\* or by the grand total).
C11_HeaderOnlyWhenNothingToDraw ==
  (chart.called /\ \A i \in 1..Len(DisplayedSeries) : TotalsOf(DisplayedSeries)[i] = 0) =>
    /\ chart.header
    /\ chart.rows = <<>>

\* the rows of the chart whose total is not 0
NonZeroRows == {i \in 1..Len(chart.rows) : chart.rows[i].value > 0}

\* C12: if exactly one period has a non-zero total, its row has all scaleWidth bar
\* cells filled and its percentage is 100.0%, whatever the percentile.
C12_SinglePeriodFillsTheScale ==
  (chart.header /\ Cardinality(NonZeroRows) = 1) =>
    \A i \in NonZeroRows :
      /\ Len(chart.rows[i].bar) = scaleWidth
      /\ CellsOf(chart.rows[i].bar, " ") = {}
      /\ Len(chart.rows[i].line) = scaleWidth
      /\ CellsOf(chart.rows[i].line, " ") = {}
      /\ chart.rows[i].percentage = Num(1000)

\* the only non-zero period among several, its deletions and insertions both drawn and
\* the average marker laid over one of its cells
C12_Witness ==
  /\ chart.header
  /\ Len(chart.rows) >= 2
  /\ Cardinality(NonZeroRows) = 1
  /\ \E i \in NonZeroRows :
       /\ CellsOf(chart.rows[i].bar, "deletions") # {}
       /\ CellsOf(chart.rows[i].bar, "insertions") # {}
       /\ CellsOf(chart.rows[i].line, "avg") # {}

----------------------------------------------------------------------------
(* A session of the command loop: `repo`, `percentile`, `ignore`, `commit` *)
(* start an analysis, `day`, `month`, `year` print a chart.  The git       *)
(* repositories are fixed; an analysis completes, or fails (git throws)    *)
(* after any number of its commits.                                        *)

\* an argument that was not typed: args[i] is undefined
NoArg == <<>>

\* the first position of character c in s, 0 when there is none
IndexOf(s, c) ==
  IF Includes(s, c) THEN CHOOSE i \in 1..Len(s) : s[i] = c /\ ~Includes(SubSeq(s, 1, i - 1), c)
  ELSE 0

\* String.prototype.split(c) for a one-character separator
RECURSIVE Split(_, _)
Split(s, c) ==
  IF ~Includes(s, c) THEN <<s>>
  ELSE <<SubSeq(s, 1, IndexOf(s, c) - 1)>> \o Split(SubSeq(s, IndexOf(s, c) + 1, Len(s)), c)

\* String.prototype.toLowerCase(), on the capitals the model's strings use
ToLowerCase(s) ==
  [i \in 1..Len(s) |-> IF s[i] = "D" THEN "d" ELSE IF s[i] = "M" THEN "m" ELSE s[i]]

\* String.prototype.endsWith(suffix)
EndsWith(s, suffix) ==
  /\ Len(s) >= Len(suffix)
  /\ SubSeq(s, Len(s) - Len(suffix) + 1, Len(s)) = suffix

\* how many leading characters of s are decimal digits
DigitPrefix(s) ==
  CHOOSE n \in 0..Len(s) :
    /\ \A i \in 1..n : Includes(Digits, s[i])
    /\ n = Len(s) \/ ~Includes(Digits, s[n + 1])

\* parseInt(s, 10) of a string without white space, and of undefined: an optional
\* sign, then the leading digits; NaN when there is no digit; what follows is ignored
ParseInt(s) ==
  LET signed == s # <<>> /\ s[1] \in {"-", "+"}
      body == IF signed THEN Tail(s) ELSE s
      n == DigitPrefix(body)
      magnitude == ParseNat(SubSeq(body, 1, n))
  IN  IF n = 0 THEN NaN
      ELSE Num(IF signed /\ s[1] = "-" THEN 0 - magnitude ELSE magnitude)

\* the test without its lower bound
PercentileRejectedAbove(p) == p.nan \/ p.val > 100

\* isNaN(p) || p < 1 || p > 100
PercentileRejected(p) == p.nan \/ p.val < 1 \/ p.val > 100

\* one line of `git show --numstat`: insertions, deletions and path as printed
NumstatLine(ins, del, file) == [ins |-> ins, del |-> del, file |-> file]

PackageLock == <<"p", "a", "c", "k", "a", "g", "e", "-", "l", "o", "c", "k", ".", "j", "s", "o", "n">>

\* The repositories: `a` has three commits whose author dates are not in commit order,
\* with a binary file and a package-lock.json; `b` has a commit of one markdown file and
\* an empty commit, both of one day.
RepoPaths == {"a", "b"}
InvalidPaths == {"x"}
GitLog(repoPath) ==
  IF repoPath = "a"
  THEN << [hash |-> Hashes[1], date |-> DateStr(2024, 1, 15), message |-> Messages[1],
           numstat |-> <<NumstatLine(<<"3">>, <<"1">>, <<"a", ".", "t", "s">>)>>],
          [hash |-> Hashes[3], date |-> DateStr(2023, 12, 31), message |-> Messages[3],
           numstat |-> <<NumstatLine(<<"1">>, <<"1">>, <<"r", ".", "m", "d">>),
                         NumstatLine(<<"-">>, <<"-">>, <<"i", ".", "p", "n", "g">>)>>],
          [hash |-> Hashes[4], date |-> DateStr(2024, 1, 1), message |-> Messages[4],
           numstat |-> <<NumstatLine(<<"1">>, <<"0">>, <<"b", ".", "t", "s">>),
                         NumstatLine(<<"5">>, <<"5">>, PackageLock)>>] >>
  ELSE << [hash |-> Hashes[5], date |-> DateStr(2024, 1, 1), message |-> Messages[5],
           numstat |-> <<NumstatLine(<<"2">>, <<"2">>, <<"r", ".", "M", "D">>)>>],
          [hash |-> Hashes[2], date |-> DateStr(2024, 1, 1), message |-> Messages[2],
           numstat |-> <<>>] >>

\* a check that lets every path through
IsValidAnyPath(path) == TRUE

\* isValidGitRepository(path): the directory exists and holds a .git directory
IsValidGitRepository(path) == path \in RepoPaths

\* git.log({'--reverse': null, from: fromRef}): every commit, or the commits after
\* fromRef; git throws when fromRef names nothing in the repository, and outside a
\* repository
GitLogFrom(repoPath, fromRef) ==
  LET all == GitLog(repoPath)
  IN  IF repoPath \notin RepoPaths THEN [ok |-> FALSE, all |-> <<>>]
      ELSE IF fromRef = NoArg THEN [ok |-> TRUE, all |-> all]
      ELSE IF \E i \in 1..Len(all) : all[i].hash = fromRef
      THEN [ok |-> TRUE,
            all |-> SubSeq(all, (CHOOSE i \in 1..Len(all) : all[i].hash = fromRef) + 1,
                           Len(all))]
      ELSE [ok |-> FALSE, all |-> <<>>]

\* isFileTypeSupported(filePath)
IsFileTypeSupported(filePath, ignoredExtensions) ==
  IF EndsWith(ToLowerCase(filePath), PackageLock) THEN FALSE
  ELSE LET parts == Split(filePath, ".")
           ext == ToLowerCase(parts[Len(parts)])
       IN  IF ext # <<>> THEN \A i \in 1..Len(ignoredExtensions) : ignoredExtensions[i] # ext
           ELSE TRUE

\* parseInt(ins) || 0
ParseIntOrZero(s) == IF ParseInt(s).nan THEN 0 ELSE ParseInt(s).val

\* totalInsertions and totalDeletions of processCommit: the lines of supported files
RECURSIVE NumstatTotals(_, _)
NumstatTotals(numstat, ignoredExtensions) ==
  IF numstat = <<>> THEN ZeroTotals
  ELSE LET line == numstat[Len(numstat)]
           before == NumstatTotals(SubSeq(numstat, 1, Len(numstat) - 1), ignoredExtensions)
       IN  IF line.file # <<>> /\ IsFileTypeSupported(line.file, ignoredExtensions)
           THEN [insertions |-> before.insertions + ParseIntOrZero(line.ins),
                 deletions |-> before.deletions + ParseIntOrZero(line.del)]
           ELSE before

\* processCommit(commit): the record handed to addCommitStats
ProcessCommit(commit, ignoredExtensions) ==
  Only({[date |-> commit.date, insertions |-> totals.insertions,
         deletions |-> totals.deletions, hash |-> commit.hash, message |-> commit.message] :
          totals \in {NumstatTotals(commit.numstat, ignoredExtensions)}})

\* setIgnoredExtensions(args[0]?.split(',').filter(Boolean) || [])
IgnoredExtensionsOf(arg) ==
  LET exts == SelectSeq(Split(arg, ","), LAMBDA e : e # <<>>)
  IN  [i \in 1..Len(exts) |->
         LET lower == ToLowerCase(exts[i])
         IN  IF lower # <<>> /\ lower[1] = "." THEN Tail(lower) ELSE lower]

\* the manager as a record of its fields, with the records ingested since clear()
ManagerOf(st, cs, order, recs) ==
  [stats |-> st, commitStats |-> cs, commitOrder |-> order, ingested |-> recs]

\* an analysis that goes on from what the manager holds
NotCleared(m) == m

\* statsManager.clear()
Cleared(m) == ManagerOf(EmptyMap, EmptyMap, <<>>, <<>>)

\* addCommitStats for every record of records in turn
RECURSIVE ManagerAfter(_, _)
ManagerAfter(m, records) ==
  IF records = <<>> THEN m
  ELSE Only({ManagerOf(StatsAfterAdd(before.stats, rec),
                       MapSet(before.commitStats, rec.hash, rec),
                       Append(before.commitOrder, rec.hash),
                       Append(before.ingested, rec)) :
               before \in {ManagerAfter(m, SubSeq(records, 1, Len(records) - 1))},
               rec \in {records[Len(records)]}})

\* how a command went: its percentile or ignore or from argument, whether it was
\* rejected, whether it started an analysis, whether that analysis completed, and
\* whether the accumulator held records when that analysis started
Outcome(op, arg, rejected, analysed, completed, held) ==
  [op |-> op, arg |-> arg, rejected |-> rejected, analysed |-> analysed,
   completed |-> completed, held |-> held]

\* the records an analysis of analyzer's repository is to ingest
RecordsToIngest(analyzer, fromRef) ==
  LET log == GitLogFrom(analyzer.repoPath, fromRef)
  IN  [ok |-> log.ok,
       records |-> [i \in 1..Len(log.all) |->
                      ProcessCommit(log.all[i], analyzer.ignoredExtensions)]]

\* analyzeCurrentRepository(percentile, fromRef) with currentAnalyzer = analyzer, git
\* going wrong after upTo commits unless upTo is all of them
AnalyzeCurrentRepository(analyzer, percentile, fromRef, upTo) ==
  IF ~analyzer.loaded \/ ~IsValidGitRepository(analyzer.repoPath)
  THEN UNCHANGED <<currentPercentile, managerVars, history, lifespan, avgChangesPerDay>>
  ELSE
  \E todo \in {RecordsToIngest(analyzer, fromRef)} :
    \E m \in {ManagerAfter(Cleared(ManagerOf(stats, commitStats, commitOrder, ingested)),
                           SubSeq(todo.records, 1, upTo))} :
      /\ currentPercentile' = percentile
      /\ stats' = m.stats
      /\ commitStats' = m.commitStats
      /\ commitOrder' = m.commitOrder
      /\ ingested' = m.ingested
      /\ aggregated' = NoResult
      /\ history' = todo.records
      /\ IF todo.ok /\ upTo = Len(todo.records)
         THEN /\ lifespan' = LifespanAfter(m.stats, lifespan)
              /\ avgChangesPerDay' = AvgChangesPerDayAfter(m.stats, percentile, avgChangesPerDay)
         ELSE UNCHANGED <<lifespan, avgChangesPerDay>>

\* whether that analysis runs to its end
Completes(analyzer, fromRef, upTo) ==
  /\ GitLogFrom(analyzer.repoPath, fromRef).ok
  /\ upTo = Len(GitLogFrom(analyzer.repoPath, fromRef).all)

\* how far an analysis gets: to the end of the log, or to the commit after the first,
\* where `git show` goes wrong
StopPoints(analyzer, fromRef) ==
  LET n == Len(GitLogFrom(analyzer.repoPath, fromRef).all)
  IN  {n} \cup (IF n >= 2 THEN {1} ELSE {})

\* the Map of the day chart, whatever chart was looked at last
SeriesOfDayChart(type, st, cs, order) == st

\* the Map a chart of the given type is drawn from: getStats() or aggregateStats(type)
SeriesOf(type, st, cs, order) ==
  IF type = "day" THEN st ELSE AggregateStatsOf(st, cs, order, type)

\* The session when the command loop starts: start() has analysed the repository named
\* on the command line with the default percentile.
InitSession ==
  /\ currentAnalyzer \in {Analyzer(path, <<>>) : path \in RepoPaths}
  /\ currentPercentile = 95
  /\ history = RecordsToIngest(currentAnalyzer, NoArg).records
  /\ ingested = history
  /\ stats = StatsOfLog(history)
  /\ commitStats = CommitStatsOfLog(history)
  /\ commitOrder = CommitOrderOfLog(history)
  /\ aggregated = NoResult
  /\ lifespan = LifespanAfter(stats, 0)
  /\ avgChangesPerDay = AvgChangesPerDayAfter(stats, 95, 0)
  /\ lastChartType = "day"
  /\ input = <<>>
  /\ output = Outcome("start", NoArg, FALSE, TRUE, TRUE, FALSE)
  /\ chart = NoChart
  /\ NotAnalyzing

\* what is typed after `percentile`, or as the second argument of `repo`
PercentileArgs == {NoArg, <<"5", "0">>, <<"0">>, <<"5", "0", "a", "b", "c">>}

\* what is typed after `ignore`
IgnoreArgs == {NoArg, <<".", "M", "D", ",", ",", "p", "n", "g">>}

\* what is typed after `commit`: nothing, or a commit hash
FromRefs == {NoArg, Hashes[1], Hashes[2]}

\* the percentile of `repo` with the default the README names
RepoPercentileOfReadme(arg) == IF arg # NoArg THEN ParseInt(arg) ELSE Num(90)

\* args[1] ? parseInt(args[1], 10) : 95
RepoPercentile(arg) == IF arg # NoArg THEN ParseInt(arg) ELSE Num(95)

\* the `repo <path> [p]` command; its outcome names the path too
CmdRepo ==
  /\ Listening
  /\ \E path \in RepoPaths \cup InvalidPaths, arg \in PercentileArgs :
    LET percentile == RepoPercentile(arg)
        held == ingested # <<>>
    IN  IF ~IsValidGitRepository(path)
        THEN \* getRepoPath throws
             /\ output' = Outcome("repo", arg, TRUE, FALSE, FALSE, FALSE) @@ [path |-> path]
             /\ chart' = NoChart
             /\ UNCHANGED <<managerVars, cliVars, input, analysisVars, history>>
        ELSE IF PercentileRejected(percentile)
        THEN /\ output' = Outcome("repo", arg, TRUE, FALSE, FALSE, FALSE) @@ [path |-> path]
             /\ chart' = NoChart
             /\ UNCHANGED <<managerVars, cliVars, input, analysisVars, history>>
        ELSE \E upTo \in StopPoints(Analyzer(path, <<>>), NoArg) :
               /\ currentAnalyzer' = Analyzer(path, <<>>)
               /\ AnalyzeCurrentRepository(currentAnalyzer', percentile.val, NoArg, upTo)
               /\ output' = Outcome("repo", arg, FALSE, TRUE,
                                    Completes(currentAnalyzer', NoArg, upTo), held)
                               @@ [path |-> path]
               /\ chart' = NoChart
               /\ UNCHANGED <<lastChartType, input, analysisVars>>

\* the `percentile <p>` command: the analysis, then the chart last looked at again
CmdPercentile ==
  /\ Listening
  /\ \E arg \in PercentileArgs :
    LET p == ParseInt(arg)
        held == ingested # <<>>
    IN  IF PercentileRejected(p)
        THEN /\ output' = Outcome("percentile", arg, TRUE, FALSE, FALSE, FALSE)
             /\ chart' = NoChart
             /\ UNCHANGED <<managerVars, cliVars, input, analysisVars, history>>
        ELSE \E upTo \in StopPoints(currentAnalyzer, NoArg) :
               /\ AnalyzeCurrentRepository(currentAnalyzer, p.val, NoArg, upTo)
               /\ output' = Outcome("percentile", arg, FALSE, TRUE,
                                    Completes(currentAnalyzer, NoArg, upTo), held)
               /\ chart' = IF Completes(currentAnalyzer, NoArg, upTo)
                           THEN PrintChartOf(SeriesOf(lastChartType, stats', commitStats',
                                                      commitOrder'),
                                             currentPercentile', lifespan', avgChangesPerDay')
                           ELSE NoChart
               /\ UNCHANGED <<lastChartType, currentAnalyzer, input, analysisVars>>

\* the `ignore <exts>` command
CmdIgnore ==
  /\ Listening
  /\ \E arg \in IgnoreArgs :
    \E upTo \in StopPoints(currentAnalyzer, NoArg) :
      /\ currentAnalyzer' = Analyzer(currentAnalyzer.repoPath, IgnoredExtensionsOf(arg))
      /\ AnalyzeCurrentRepository(currentAnalyzer', currentPercentile, NoArg, upTo)
      /\ output' = Outcome("ignore", arg, FALSE, TRUE,
                           Completes(currentAnalyzer', NoArg, upTo), ingested # <<>>)
      /\ chart' = NoChart
      /\ UNCHANGED <<lastChartType, input, analysisVars>>

\* the `commit [from]` command
CmdCommitFrom ==
  /\ Listening
  /\ \E fromRef \in FromRefs :
    \E upTo \in StopPoints(currentAnalyzer, fromRef) :
      /\ lastChartType' = "commit"
      /\ AnalyzeCurrentRepository(currentAnalyzer, currentPercentile, fromRef, upTo)
      /\ output' = Outcome("commit", fromRef, FALSE, TRUE,
                           Completes(currentAnalyzer, fromRef, upTo), ingested # <<>>)
      /\ chart' = IF Completes(currentAnalyzer, fromRef, upTo)
                  THEN PrintChartOf(AggregateStatsOf(stats', commitStats', commitOrder',
                                                     "commit"),
                                    currentPercentile', lifespan', avgChangesPerDay')
                  ELSE NoChart
      /\ UNCHANGED <<currentAnalyzer, input, analysisVars>>

\* the `help` command
CmdHelp ==
  /\ Listening
  /\ output' = Outcome("help", NoArg, FALSE, FALSE, FALSE, FALSE)
  /\ chart' = NoChart
  /\ UNCHANGED <<managerVars, cliVars, input, analysisVars, history>>

\* the `exit` command: process.exit(0)
CmdExit ==
  /\ Listening
  /\ output' = Outcome("exit", NoArg, FALSE, FALSE, FALSE, FALSE)
  /\ chart' = NoChart
  /\ UNCHANGED <<managerVars, cliVars, input, analysisVars, history>>

NextSession ==
  \/ CmdRepo \/ CmdPercentile \/ CmdIgnore \/ CmdCommitFrom
  \/ CmdDay \/ CmdMonth \/ CmdYear \/ CmdHelp \/ CmdExit

SpecSession == InitSession /\ [][NextSession]_vars

----------------------------------------------------------------------------
(* Claims about the order of the rows, the commands and the summary.       *)

\* the keys are in ascending order, none twice
IsAscending(keys) == \A i \in 1..(Len(keys) - 1) : StrLess(keys[i], keys[i + 1])

RowDates == [i \in 1..Len(chart.rows) |-> chart.rows[i].date]

IsNumberFrom1To100(arg) ==
  LET parts == Split(arg, ".")
      AllDigits(t) == t # <<>> /\ \A i \in 1..Len(t) : Includes(Digits, t[i])
  IN  /\ Len(parts) \in {1, 2}
      /\ \A i \in 1..Len(parts) : AllDigits(parts[i])
      /\ ParseNat(parts[1]) >= 1
      /\ ParseNat(parts[1]) <= 100
      /\ (ParseNat(parts[1]) = 100 /\ Len(parts) = 2) => ParseNat(parts[2]) = 0

\* C16: a `percentile` or `repo` command whose percentile argument is not a number in
\* [1,100] changes none of currentPercentile, the current analyzer, the accumulator,
\* lifespan and avgChangesPerDay, and starts no analysis.
C16_InvalidPercentileRejected ==
  [][(/\ output'.op \in {"percentile", "repo"}
      /\ ~(output'.op = "repo" /\ output'.arg = NoArg)
      /\ ~IsNumberFrom1To100(output'.arg))
       => /\ ~output'.analysed
          /\ UNCHANGED <<currentPercentile, currentAnalyzer, stats, commitStats, commitOrder,
                         lifespan, avgChangesPerDay>>]_vars

SessionOps == {"start", "repo", "percentile", "ignore", "commit"}

\* C17: after an analysis started by a command the accumulator holds the records that
\* analysis ingested and nothing else: they are the first records of its log (all of
\* them when it completed), the commit order and the per-commit map have exactly their
\* hashes, and the day totals are their sums.
C17_AnalysisStartsFromEmpty ==
  (output.op \in SessionOps /\ output.analysed) =>
    /\ Len(ingested) <= Len(history)
    /\ ingested = SubSeq(history, 1, Len(ingested))
    /\ output.completed => ingested = history
    /\ commitOrder = [i \in 1..Len(ingested) |-> ingested[i].hash]
    /\ MapKeys(commitStats) = commitOrder
    /\ Len(stats) = Cardinality({ingested[i].date : i \in 1..Len(ingested)})
    /\ \A i \in 1..Len(stats) :
         /\ stats[i].value.insertions = SumOver(ingested, RecordsOf(stats[i].key), "insertions")
         /\ stats[i].value.deletions = SumOver(ingested, RecordsOf(stats[i].key), "deletions")

\* a `repo` command that completed on an accumulator that held records, and left the
\* records of another repository than the one it started with
C17_Witness ==
  /\ output.op = "repo"
  /\ output.held
  /\ output.completed
  /\ currentAnalyzer.repoPath = "b"
  /\ Len(ingested) = 2
  /\ Len(stats) = 1

\* C18: whenever a chart summary is printed, the lifespan and the average changes per
\* active day it shows are those worked out from the accumulator as it is and the
\* current percentile.
C18_SummaryIsNotStale ==
  chart.header =>
    /\ chart.summary.lifespan = LifespanAfter(stats, 0)
    /\ chart.summary.avgChangesPerDay = AvgChangesPerDayAfter(stats, currentPercentile, 0)

\* C19: the number of active periods in the chart summary is the number of periods of
\* the displayed series whose total is not 0.
C19_ActivePeriodsAreNonZeroPeriods ==
  chart.header => chart.summary.activePeriods = Cardinality(NonZeroRows)

\* the calendar around the dates of the model, as <<year, month, day>>
CalendarDays ==
  {<<2023, 12, d>> : d \in 1..31} \cup {<<2024, 1, d>> : d \in 1..31}
    \cup {<<2024, 2, d>> : d \in 1..29}

\* the calendar day a date string names
CalendarDay(date) == CHOOSE c \in CalendarDays : DateStr(c[1], c[2], c[3]) = date

NotAfter(c1, c2) ==
  \/ c1[1] < c2[1]
  \/ c1[1] = c2[1] /\ c1[2] < c2[2]
  \/ c1[1] = c2[1] /\ c1[2] = c2[2] /\ c1[3] <= c2[3]

\* C20: after a completed analysis with at least one record, lifespan is the number of
\* calendar days from the earliest to the latest date of the accumulator, both counted:
\* 1 when every record is of one day, and never less than 1.
C20_LifespanIsInclusiveDayCount ==
  (output.op \in SessionOps /\ output.analysed /\ output.completed /\ stats # EmptyMap) =>
    \A days \in {{CalendarDay(stats[i].key) : i \in 1..Len(stats)}} :
      /\ lifespan = Cardinality({c \in CalendarDays :
                                   /\ \E first \in days : NotAfter(first, c)
                                   /\ \E last \in days : NotAfter(c, last)})
      /\ lifespan >= 1
      /\ Cardinality(days) = 1 => lifespan = 1

\* an analysis an `ignore` command ran to its end, whose dates cross the end of a year
\* and were not ingested in calendar order
C20_Witness ==
  /\ output.op = "ignore"
  /\ output.completed
  /\ Len(stats) = 3
  /\ ~IsAscending(MapKeys(stats))
  /\ lifespan = 16

----------------------------------------------------------------------------
(* analyzeRepository step by step: one commit of the log at a time, in     *)
(* batches, with the progress callback after each.  A step is what runs    *)
(* between two awaits of processBatch.                                     *)

BATCH_SIZE == 100

\* The logs `git log --reverse` returns here: none, one commit, a full batch, a full
\* batch and one commit, two full batches and one commit.
LogLengths == {0, 1, BATCH_SIZE, BATCH_SIZE + 1, 2 * BATCH_SIZE + 1}

\* the CommitStats record processCommit builds for the k-th commit of such a log: the
\* hashes are all different, the dates go round the days of Dates
LogRecord(k) ==
  [date |-> IF k % 4 = 0 THEN DateStr(2024, 1, 15)
            ELSE IF k % 4 = 1 THEN DateStr(2023, 12, 31)
            ELSE IF k % 4 = 2 THEN DateStr(2024, 2, 1)
            ELSE DateStr(2024, 1, 1),
   insertions |-> k % 3,
   deletions |-> 1,
   hash |-> Pad4(k) \o Pad4(k),
   message |-> Messages[1]]

\* log.all.slice(i, i + BATCH_SIZE), as a sequence
Batch(all, i) == SubSeq(all, i + 1, Min2(i + BATCH_SIZE, Len(all)))

\* the callback's first argument when it counts within the batch only
ProgressCurrentInBatch(startIndex, i) == i + 1

\* startIndex + i + 1, the first argument of onProgress in processBatch
ProgressCurrent(startIndex, i) == startIndex + i + 1

\* analyzeCurrentRepository has cleared the accumulator and git.log has returned
InitAnalyze ==
  /\ \E n \in LogLengths : history = [k \in 1..n |-> LogRecord(k)]
  /\ stats = EmptyMap
  /\ commitStats = EmptyMap
  /\ commitOrder = <<>>
  /\ ingested = <<>>
  /\ aggregated = NoResult
  /\ currentPercentile = 95
  /\ lifespan = 0
  /\ avgChangesPerDay = 0
  /\ lastChartType = "day"
  /\ currentAnalyzer = Analyzer("repo", <<>>)
  /\ input = <<>>
  /\ output = NoOutput
  /\ chart = NoChart
  /\ analyzing = "running"
  /\ batchStart = 0
  /\ batchIndex = 0
  /\ onProgress = <<>>

\* one turn of the loop of processBatch: processCommit(commits[i]), then the callback
ProcessCommitStep ==
  /\ analyzing = "running"
  /\ batchStart < Len(history)
  /\ batchIndex < Len(Batch(history, batchStart))
  /\ AddCommitStats(Batch(history, batchStart)[batchIndex + 1])
  /\ onProgress' = Append(onProgress, [current |-> ProgressCurrent(batchStart, batchIndex),
                                       total |-> Len(history)])
  /\ batchIndex' = batchIndex + 1
  /\ UNCHANGED <<aggregated, cliVars, input, output, chart, history, analyzing, batchStart>>

\* `git show` of processCommit rejects: the exception leaves analyzeRepository
ProcessCommitFails ==
  /\ analyzing = "running"
  /\ batchStart < Len(history)
  /\ batchIndex < Len(Batch(history, batchStart))
  /\ analyzing' = "failed"
  /\ UNCHANGED <<managerVars, cliVars, input, output, chart, history, batchStart,
                 batchIndex, onProgress>>

\* processBatch returns and the loop of analyzeRepository goes to the next batch
ProcessBatchReturns ==
  /\ analyzing = "running"
  /\ batchStart < Len(history)
  /\ batchIndex = Len(Batch(history, batchStart))
  /\ batchStart' = batchStart + BATCH_SIZE
  /\ batchIndex' = 0
  /\ UNCHANGED <<managerVars, cliVars, input, output, chart, history, analyzing, onProgress>>

\* the loop of analyzeRepository ends; analyzeCurrentRepository works out the lifespan
\* and the average
AnalyzeRepositoryReturns ==
  /\ analyzing = "running"
  /\ batchStart >= Len(history)
  /\ analyzing' = "done"
  /\ lifespan' = LifespanAfter(stats, lifespan)
  /\ avgChangesPerDay' = AvgChangesPerDayAfter(stats, currentPercentile, avgChangesPerDay)
  /\ UNCHANGED <<managerVars, currentPercentile, lastChartType, currentAnalyzer, input,
                 output, chart, history, batchStart, batchIndex, onProgress>>

NextAnalyze ==
  ProcessCommitStep \/ ProcessCommitFails \/ ProcessBatchReturns \/ AnalyzeRepositoryReturns

SpecAnalyze == InitAnalyze /\ [][NextAnalyze]_vars

----------------------------------------------------------------------------
(* Claims about the order of ingestion, the frame of the read-only calls   *)
(* and the commands of the session.                                        *)

\* the orders n records can be ingested in
IngestionOrders(n) == {p \in [1..n -> 1..n] : \A i, j \in 1..n : p[i] = p[j] => i = j}

\* a Map as a mapping: its keys with their values, the order of the entries left out
MappingOf(m) == {<<m[i].key, m[i].value>> : i \in 1..Len(m)}

\* C21: for every order in which the records ingested since the last clear() could
\* have been ingested, aggregateStats for day, month or year maps the same keys to the
\* same (insertions, deletions) as the Map it returned for the order they came in.
C21_AggregationIgnoresOrder ==
  aggregated.period \in DatePeriods =>
    \A p \in IngestionOrders(Len(ingested)) :
      MappingOf(AggregateStatsOf(StatsOfLog([i \in 1..Len(ingested) |-> ingested[p[i]]]),
                                 EmptyMap, <<>>, aggregated.period))
        = MappingOf(aggregated.map)

\* a month aggregation of three days, two of one month, ingested out of date order, so
\* that another order changes the order of the entries
C21_Witness ==
  /\ aggregated.period = "month"
  /\ Len(ingested) = 3
  /\ Len(stats) = 3
  /\ Len(aggregated.map) = 2
  /\ ~IsAscending(MapKeys(stats))
  /\ \A i \in 1..Len(stats) : stats[i].value.insertions + stats[i].value.deletions > 0

IsPercentile(arg) ==
  /\ arg # <<>>
  /\ \A i \in 1..Len(arg) : Includes(Digits, arg[i])
  /\ ParseNat(arg) >= 1
  /\ ParseNat(arg) <= 100

C24_EveryCommitOnceInLogOrder ==
  \A done \in {Len(onProgress)}, total \in {Len(history)} :
    /\ done <= total
    /\ ingested = SubSeq(history, 1, done)
    /\ commitOrder = [c \in 1..done |-> history[c].hash]
    /\ Cardinality({commitOrder[c] : c \in 1..done}) = done
    /\ \A c \in 1..done : onProgress[c] = [current |-> c, total |-> total]
    /\ analyzing = "running" =>
         /\ batchStart % BATCH_SIZE = 0
         /\ batchIndex <= BATCH_SIZE
         /\ done = Min2(batchStart + batchIndex, total)
    /\ analyzing = "done" => done = total

\* an analysis of three batches that has returned
C24_Witness ==
  /\ analyzing = "done"
  /\ Len(onProgress) = 2 * BATCH_SIZE + 1
  /\ Len(ingested) = 2 * BATCH_SIZE + 1
  /\ batchStart = 3 * BATCH_SIZE

\* C25: in every row that is not an outlier the deletions cells and the insertions
\* cells of the bar are together as many as the row's proportional bar length,
\* round(total / maxValue * scaleWidth), wherever maxValue is not 0.
C25_SegmentsAddUpToBarLength ==
  (chart.header /\ chart.maxValue > 0) =>
    \A i \in 1..Len(chart.rows) :
      ~chart.rows[i].outlier =>
        /\ chart.rows[i].totalBarLength = Num(Scaled(chart.rows[i].value, chart.maxValue))
        /\ Cardinality(CellsOf(chart.rows[i].bar, "deletions"))
             + Cardinality(CellsOf(chart.rows[i].bar, "insertions"))
             = chart.rows[i].totalBarLength.val

\* C26: a `percentile p` command with a valid p sets currentPercentile to p and
\* analyses the repository again; when that analysis completes the accumulator holds
\* the whole history and the chart printed is the one of the remembered chart type.
\* The remembered type is set by the day, month, year and commit commands, whose chart
\* is of that type, and is left alone by repo, ignore, help, percentile and rejected
\* commands; it is "day" when the command loop starts.
C26_PercentileReprintsLastChart ==
  [][/\ (output'.op = "percentile" /\ IsPercentile(output'.arg)) =>
          /\ ~output'.rejected
          /\ output'.analysed
          /\ currentPercentile' = ParseNat(output'.arg)
          /\ output'.completed =>
               /\ ingested' = RecordsToIngest(currentAnalyzer', NoArg).records
               /\ chart'.called
               /\ chart' = PrintChartOf(SeriesOf(lastChartType, stats', commitStats',
                                                 commitOrder'),
                                        currentPercentile', lifespan', avgChangesPerDay')
               /\ chart'.header => chart'.summary.periodType = lastChartType
     /\ output'.op \in {"repo", "ignore", "help", "percentile"} =>
          lastChartType' = lastChartType
     /\ output'.op = "commit" => lastChartType' = "commit"
     /\ (output'.op = "none" /\ chart'.header) => chart'.summary.periodType = lastChartType'
     /\ output.op = "start" => lastChartType = "day"]_vars

\* a `percentile 50` command that completed after a month chart had been looked at,
\* and printed the month chart again
C26_Witness ==
  /\ output.op = "percentile"
  /\ output.arg = <<"5", "0">>
  /\ output.completed
  /\ lastChartType = "month"
  /\ chart.header
  /\ chart.summary.periodType = "month"
  /\ Len(chart.rows) = 2
  /\ currentPercentile = 50

\* C27: in every state of the session currentPercentile is an integer from 1 to 100,
\* and so is the percentile of every chart summary.
C27_PercentileStaysInRange ==
  /\ currentPercentile \in 1..100
  /\ chart.header => chart.summary.percentile \in 1..100

\* the percentile 50 once set, kept by a `percentile 0` command that was rejected
C27_Witness ==
  /\ output.op = "percentile"
  /\ output.arg = <<"0">>
  /\ output.rejected
  /\ currentPercentile = 50

\* C28: a `repo` command naming a path that is not a valid Git repository is rejected
\* and changes none of the current analyzer, the accumulator, currentPercentile,
\* lifespan and avgChangesPerDay; after it the command loop takes the next command.
C28_InvalidRepoHasNoEffect ==
  [][(output'.op = "repo" /\ output'.path \in InvalidPaths) =>
       /\ output'.rejected
       /\ ~output'.analysed
       /\ UNCHANGED <<currentAnalyzer, stats, commitStats, commitOrder, ingested,
                      currentPercentile, lifespan, avgChangesPerDay, lastChartType>>
       /\ Listening']_vars

\* a `repo x 50` command rejected for its path, in a session on repository b with the
\* percentile 50 and records in the accumulator
C28_Witness ==
  /\ output.op = "repo"
  /\ output.path = "x"
  /\ output.rejected
  /\ currentAnalyzer.repoPath = "b"
  /\ Len(currentAnalyzer.ignoredExtensions) = 2
  /\ currentPercentile = 50
  /\ Len(ingested) = 2
  /\ lifespan = 1

\* C29: a day, month or year chart printed right after a commit chart was shown by a
\* `commit` command that completed, with or without a starting reference, is computed
\* from every commit of the history of the current repository.
C29_ChartsShowWholeHistory ==
  [][(output.op = "commit" /\ output.completed /\ output'.op = "none" /\ chart'.called) =>
       \A whole \in {StatsOfLog(RecordsToIngest(currentAnalyzer, NoArg).records)} :
         /\ stats' = whole
         /\ chart' = PrintChartOf(SeriesOf(lastChartType', whole, EmptyMap, <<>>),
                                  currentPercentile', lifespan', avgChangesPerDay')]_vars

\* C30: in every chart summary the number of active periods is at most the number of
\* possible periods printed beside it, so that the active percentage is at most 100.
C30_ActiveWithinPossible ==
  chart.header =>
    /\ chart.summary.activePeriods <= chart.summary.possiblePeriods
    /\ chart.summary.activePercentage.num <= 100 * chart.summary.activePercentage.den

====
